---- MODULE Spec2Model ----
(***************************************************************************)
(* Model of src/app.py: the category list editor, the response parser      *)
(* (parse_response), the batch classifier (process_batch_dialogue), the    *)
(* aggregation (calculate_category_counts, format_category_result) and     *)
(* the run handler that stores a run's results in the session state.       *)
(*                                                                         *)
(* A Python str is a sequence of one-character strings.  A Python value    *)
(* is a record [k |-> kind, v |-> payload]:                                *)
(*    str   payload = the characters                                       *)
(*    num   payload = the characters of the JSON number (int or float)     *)
(*    lit   payload = the characters of true, false or null                *)
(*    list  payload = the sequence of element values                       *)
(*    dict  payload = a function from keys (str payloads) to values        *)
(* The texts the model feeds to the program are written over the           *)
(* characters of the pieces defined below; they hold no backslash, no      *)
(* carriage return and no character outside ASCII.                         *)
(***************************************************************************)
EXTENDS Integers, Sequences, FiniteSets, TLC

----------------------------------------------------------------------------
(* Python values *)

\* the element of a one-element set.  The({e : x \in {d}}) is e with x
\* standing for the value of d, which is then computed once however often
\* e reads x; the definitions below use it where Python assigns a local.
The(S) == CHOOSE x \in S : TRUE

PyStr(s) == [k |-> "str", v |-> s]

PyNum(s) == [k |-> "num", v |-> s]

PyLit(s) == [k |-> "lit", v |-> s]

PyList(xs) == [k |-> "list", v |-> xs]

PyDict(f) == [k |-> "dict", v |-> f]

\* None, which JSON's null decodes to
None == PyLit(<<"n", "u", "l", "l">>)

EmptyDict == [x \in {} |-> PyStr(<<>>)]

\* d[key] = val on a dict payload
DictSet(f, key, val) ==
    [x \in (DOMAIN f) \cup {key} |-> IF x = key THEN val ELSE f[x]]

\* d.update(other) on dict payloads: other's entries win
DictUpdate(f, g) ==
    [x \in (DOMAIN f) \cup (DOMAIN g) |-> IF x \in DOMAIN g THEN g[x] ELSE f[x]]

\* the set of elements of a sequence
Range(xs) == {xs[i] : i \in 1..Len(xs)}

----------------------------------------------------------------------------
(* str methods *)

\* the grave accent character, which a TLA+ string cannot hold
Backtick == "BACKTICK"

\* the characters str.strip() removes, among those of the model's texts
Whitespace == {" ", "\n", "\t", "\r"}

\* s.strip()
Strip(s) ==
    The({ IF \A i \in 1..Len(t) : t[i] \in Whitespace
          THEN <<>>
          ELSE SubSeq(t,
                      CHOOSE i \in 1..Len(t) :
                          t[i] \notin Whitespace /\ \A j \in 1..(i - 1) : t[j] \in Whitespace,
                      CHOOSE i \in 1..Len(t) :
                          t[i] \notin Whitespace /\ \A j \in (i + 1)..Len(t) : t[j] \in Whitespace)
          : t \in {s} })

\* s.startswith(p)
StartsWith(s, p) == \E t \in {s} : Len(t) >= Len(p) /\ SubSeq(t, 1, Len(p)) = p

\* whether sub occurs in s at index i
OccursAt(s, sub, i) ==
    /\ i >= 1
    /\ i + Len(sub) - 1 <= Len(s)
    /\ SubSeq(s, i, i + Len(sub) - 1) = sub

\* s.find(sub), 1-based; 0 when sub does not occur
Find(s, sub) ==
    The({ IF \E i \in 1..(Len(t) + 1) : OccursAt(t, sub, i)
          THEN CHOOSE i \in 1..(Len(t) + 1) :
                   OccursAt(t, sub, i) /\ \A j \in 1..(i - 1) : ~OccursAt(t, sub, j)
          ELSE 0
          : t \in {s} })

\* sub in s, for two str
Contains(s, sub) == Find(s, sub) # 0

RECURSIVE Split(_, _)
\* s.split(sep) with a non-empty sep: the leftmost occurrences, not overlapping
Split(s, sep) ==
    The({ The({ IF i = 0
                THEN <<t>>
                ELSE <<SubSeq(t, 1, i - 1)>>
                     \o Split(SubSeq(t, i + Len(sep), Len(t)), sep)
                : i \in {Find(t, sep)} })
          : t \in {s} })

RECURSIVE SplitLines(_)
\* s.splitlines(): no last empty line after a final line break
SplitLines(s) ==
    The({ The({ IF t = <<>> THEN <<>>
                ELSE IF i = 0 THEN <<t>>
                ELSE <<SubSeq(t, 1, i - 1)>> \o SplitLines(SubSeq(t, i + 1, Len(t)))
                : i \in {Find(t, <<"\n">>)} })
          : t \in {s} })

RECURSIVE Join(_, _)
\* sep.join(parts)
Join(parts, sep) ==
    The({ IF ps = <<>> THEN <<>>
          ELSE IF Len(ps) = 1 THEN ps[1]
          ELSE ps[1] \o sep \o Join(Tail(ps), sep)
          : ps \in {parts} })

----------------------------------------------------------------------------
(* json.loads, as the standard decoder scans a document.  The scanners   *)
(* return [ok |-> TRUE, val |-> value, end |-> the index after it], or   *)
(* [ok |-> FALSE] where the decoder raises.                              *)

JsonWhitespace == {" ", "\t", "\n", "\r"}

Digits == {"0", "1", "2", "3", "4", "5", "6", "7", "8", "9"}

\* characters below U+0020, which the strict decoder refuses inside a string
ControlChars == {"\n", "\t", "\r", "\f"}

\* the escapes of the decoder that yield a character of the model's texts
Escapes ==
    ("\"" :> "\"") @@ ("\\" :> "\\") @@ ("/" :> "/") @@
    ("n" :> "\n") @@ ("t" :> "\t") @@ ("r" :> "\r") @@ ("f" :> "\f")

JsonLiterals ==
    << <<"n", "u", "l", "l">>, <<"t", "r", "u", "e">>, <<"f", "a", "l", "s", "e">> >>

JsonFloatNames ==
    << <<"N", "a", "N">>,
       <<"I", "n", "f", "i", "n", "i", "t", "y">>,
       <<"-", "I", "n", "f", "i", "n", "i", "t", "y">> >>

Fail == [ok |-> FALSE]

Scanned(val, end) == [ok |-> TRUE, val |-> val, end |-> end]

\* the first index from i on that holds no JSON whitespace
SkipWS(s, i) ==
    CHOOSE j \in i..(Len(s) + 1) :
        /\ j = Len(s) + 1 \/ s[j] \notin JsonWhitespace
        /\ \A m \in i..(j - 1) : s[m] \in JsonWhitespace

\* the first index from i on that holds no digit
DigitsEnd(s, i) ==
    CHOOSE j \in i..(Len(s) + 1) :
        /\ j = Len(s) + 1 \/ s[j] \notin Digits
        /\ \A m \in i..(j - 1) : s[m] \in Digits

RECURSIVE ScanString(_, _, _)
\* py_scanstring: the string whose opening quote precedes index i
ScanString(s, i, acc) ==
    IF i > Len(s) THEN Fail
    ELSE IF s[i] = "\"" THEN Scanned(PyStr(acc), i + 1)
    ELSE IF s[i] = "\\"
         THEN IF i + 1 <= Len(s) /\ s[i + 1] \in DOMAIN Escapes
              THEN ScanString(s, i + 2, Append(acc, Escapes[s[i + 1]]))
              ELSE Fail
    ELSE IF s[i] \in ControlChars THEN Fail
    ELSE ScanString(s, i + 1, Append(acc, s[i]))

\* NUMBER_RE at index i: -?(0|[1-9]\d*)(\.\d+)?([eE][-+]?\d+)?
ScanNumber(s, i) ==
    LET intStart == IF s[i] = "-" THEN i + 1 ELSE i
        intEnd   == IF s[intStart] = "0" THEN intStart + 1 ELSE DigitsEnd(s, intStart)
        fracEnd  == IF /\ intEnd <= Len(s)
                       /\ s[intEnd] = "."
                       /\ DigitsEnd(s, intEnd + 1) > intEnd + 1
                    THEN DigitsEnd(s, intEnd + 1)
                    ELSE intEnd
        expSign  == IF fracEnd + 1 <= Len(s) /\ s[fracEnd + 1] \in {"+", "-"}
                    THEN fracEnd + 2
                    ELSE fracEnd + 1
        expEnd   == IF /\ fracEnd <= Len(s)
                       /\ s[fracEnd] \in {"e", "E"}
                       /\ DigitsEnd(s, expSign) > expSign
                    THEN DigitsEnd(s, expSign)
                    ELSE fracEnd
    IN  IF intStart > Len(s) \/ s[intStart] \notin Digits
        THEN Fail
        ELSE The({ Scanned(PyNum(SubSeq(s, i, e - 1)), e) : e \in {expEnd} })

\* the literals among lits that occur at index i
LiteralsAt(s, i, lits) == {n \in 1..Len(lits) : OccursAt(s, lits[n], i)}

RECURSIVE ScanValue(_, _)
RECURSIVE ScanMembers(_, _, _)
RECURSIVE ScanElements(_, _, _)

\* JSONObject: index i follows the opening brace
ScanObject(s, i) ==
    The({ IF j <= Len(s) /\ s[j] = "}"
          THEN Scanned(PyDict(EmptyDict), j + 1)
          ELSE ScanMembers(s, j, EmptyDict)
          : j \in {SkipWS(s, i)} })

\* after a member's value, which ends before index i: the closing brace,
\* or a comma and the next member
ScanMemberEnd(s, i, acc) ==
    The({ IF d > Len(s) THEN Fail
          ELSE IF s[d] = "}" THEN Scanned(PyDict(members), d + 1)
          ELSE IF s[d] = "," THEN ScanMembers(s, SkipWS(s, d + 1), members)
          ELSE Fail
          : d \in {SkipWS(s, i)}, members \in {acc} })

\* after a member's key, which ends before index i: the colon and the value;
\* a repeated key keeps its last value
ScanMemberValue(s, key, i, acc) ==
    The({ IF c > Len(s) \/ s[c] # ":" THEN Fail
          ELSE The({ IF ~val.ok THEN Fail
                     ELSE ScanMemberEnd(s, val.end, DictSet(acc, key, val.val))
                     : val \in {ScanValue(s, SkipWS(s, c + 1))} })
          : c \in {SkipWS(s, i)} })

\* the members of an object from the key at index i on
ScanMembers(s, i, acc) ==
    IF i > Len(s) \/ s[i] # "\"" THEN Fail
    ELSE The({ IF ~key.ok THEN Fail
               ELSE ScanMemberValue(s, key.val.v, key.end, acc)
               : key \in {ScanString(s, i + 1, <<>>)} })

\* JSONArray: index i follows the opening bracket
ScanArray(s, i) ==
    The({ IF j <= Len(s) /\ s[j] = "]"
          THEN Scanned(PyList(<<>>), j + 1)
          ELSE ScanElements(s, j, <<>>)
          : j \in {SkipWS(s, i)} })

\* after an element, which ends before index i: the closing bracket, or a
\* comma and the next element
ScanElementEnd(s, i, acc) ==
    The({ IF d > Len(s) THEN Fail
          ELSE IF s[d] = "]" THEN Scanned(PyList(elements), d + 1)
          ELSE IF s[d] = "," THEN ScanElements(s, SkipWS(s, d + 1), elements)
          ELSE Fail
          : d \in {SkipWS(s, i)}, elements \in {acc} })

\* the elements of an array from the value at index i on
ScanElements(s, i, acc) ==
    The({ IF ~val.ok THEN Fail
          ELSE ScanElementEnd(s, val.end, Append(acc, val.val))
          : val \in {ScanValue(s, i)} })

\* scan_once: the value that starts at index i
ScanValue(s, i) ==
    The({ IF j > Len(s) THEN Fail
          ELSE IF s[j] = "\"" THEN ScanString(s, j + 1, <<>>)
          ELSE IF s[j] = "{" THEN ScanObject(s, j + 1)
          ELSE IF s[j] = "[" THEN ScanArray(s, j + 1)
          ELSE IF LiteralsAt(s, j, JsonLiterals) # {}
               THEN LET n == CHOOSE m \in LiteralsAt(s, j, JsonLiterals) : TRUE
                    IN  Scanned(PyLit(JsonLiterals[n]), j + Len(JsonLiterals[n]))
          ELSE IF ScanNumber(s, j).ok THEN ScanNumber(s, j)
          ELSE IF LiteralsAt(s, j, JsonFloatNames) # {}
               THEN LET n == CHOOSE m \in LiteralsAt(s, j, JsonFloatNames) : TRUE
                    IN  Scanned(PyNum(JsonFloatNames[n]), j + Len(JsonFloatNames[n]))
          ELSE Fail
          : j \in {i} })

\* json.loads(s): [ok |-> TRUE, val |-> value], or [ok |-> FALSE] when it raises
JsonLoads(s) ==
    The({ The({ IF ~val.ok THEN Fail
                ELSE IF SkipWS(t, val.end) # Len(t) + 1 THEN Fail
                ELSE [ok |-> TRUE, val |-> val.val]
                : val \in {ScanValue(t, SkipWS(t, 1))} })
          : t \in {s} })

----------------------------------------------------------------------------
(* parse_response *)

\* "```"
Fence == <<Backtick, Backtick, Backtick>>

\* {item: "" for item in categories}
AllAbsent(categories) == PyDict([c \in Range(categories) |-> PyStr(<<>>)])

\* lines[1:] when the first line starts with a fence, then lines[:-1] when
\* the last line is a fence
DropFenceLines(lines) ==
    The({ IF lines1 # <<>> /\ Strip(lines1[Len(lines1)]) = Fence
          THEN SubSeq(lines1, 1, Len(lines1) - 1)
          ELSE lines1
          : lines1 \in {IF StartsWith(lines[1], Fence) THEN Tail(lines) ELSE lines} })

\* the text handed to json.loads: the fence lines are removed only from a
\* text that starts with a fence
CleanResponse(response_text) ==
    The({ IF StartsWith(cleaned, Fence)
          THEN The({ Strip(Join(DropFenceLines(lines), <<"\n">>))
                     : lines \in {SplitLines(cleaned)} })
          ELSE cleaned
          : cleaned \in {Strip(response_text)} })

\* item in result: a key of a dict, an element of a list, a substring of a str;
\* [ok |-> FALSE] when the value is not iterable (TypeError)
PyIn(item, result) ==
    IF result.k = "dict" THEN [ok |-> TRUE, val |-> item \in DOMAIN result.v]
    ELSE IF result.k = "list"
         THEN [ok |-> TRUE, val |-> \E n \in 1..Len(result.v) :
                                        /\ result.v[n].k = "str"
                                        /\ result.v[n].v = item]
    ELSE IF result.k = "str" THEN [ok |-> TRUE, val |-> Contains(result.v, item)]
    ELSE Fail

RECURSIVE FillCategories(_, _)
\* for item in categories: if item not in result: result[item] = ""
\* [ok |-> FALSE] when a step raises: only a dict takes a str subscript
FillCategories(result, categories) ==
    IF categories = <<>> THEN [ok |-> TRUE, val |-> result]
    ELSE The({ IF ~has.ok THEN Fail
               ELSE IF has.val THEN FillCategories(r, Tail(categories))
               ELSE IF r.k # "dict" THEN Fail
               ELSE FillCategories(PyDict(DictSet(r.v, Head(categories), PyStr(<<>>))),
                                   Tail(categories))
               : r \in {result}, has \in {PyIn(Head(categories), result)} })

\* the try block: whatever json.loads or the loop raises yields the
\* all-absent mapping
DecodeAndFill(cleaned, categories) ==
    The({ IF ~decoded.ok THEN AllAbsent(categories)
          ELSE The({ IF filled.ok THEN filled.val ELSE AllAbsent(categories)
                     : filled \in {FillCategories(decoded.val, categories)} })
          : decoded \in {JsonLoads(cleaned)} })

parse_response(response_text, categories) ==
    DecodeAndFill(CleanResponse(response_text), categories)

----------------------------------------------------------------------------
(* process_batch_dialogue *)

\* the default of the delimiter parameter
DefaultDelimiter == <<"-", "-", "-", "-", "-">>

\* an outcome of model.generate_content(content) and response.text
Raised == [raised |-> TRUE, text |-> <<>>]

Returned(text) == [raised |-> FALSE, text |-> text]

RECURSIVE CollectParts_KeepEmpty(_, _, _)
\* the loop without its "if part" test: an empty segment is parsed too
CollectParts_KeepEmpty(parts, categories, results) ==
    IF parts = <<>> THEN results
    ELSE The({ CollectParts_KeepEmpty(Tail(parts), categories,
                                      Append(done, parse_response(part, categories)))
               : part \in {Strip(Head(parts))}, done \in {results} })

RECURSIVE CollectParts(_, _, _)
\* for part in parts: part = part.strip(); if part: results.append(...)
CollectParts(parts, categories, results) ==
    IF parts = <<>> THEN results
    ELSE The({ CollectParts(Tail(parts), categories,
                            IF part # <<>>
                            THEN Append(done, parse_response(part, categories))
                            ELSE done)
               : part \in {Strip(Head(parts))}, done \in {results} })

RECURSIVE PadResults(_, _, _)
\* while len(results) < len(dialogues): results.append({item: "" ...})
PadResults(results, dialogues, categories) ==
    The({ IF Len(rs) < Len(dialogues)
          THEN PadResults(Append(rs, AllAbsent(categories)), dialogues, categories)
          ELSE rs
          : rs \in {results} })

\* the results without the truncation
TruncateResults_Off(results, dialogues) ==
    results

\* if len(results) > len(dialogues): results = results[:len(dialogues)]
TruncateResults(results, dialogues) ==
    The({ IF Len(rs) > Len(dialogues) THEN SubSeq(rs, 1, Len(dialogues)) ELSE rs
          : rs \in {results} })

\* outcome: what the single call of the model backend does.  The prompt
\* (the categories, the example, the joined dialogues) goes to the backend
\* and is read nowhere else.
process_batch_dialogue(dialogues, categories, delimiter, outcome) ==
    IF outcome.raised
    THEN [n \in 1..Len(dialogues) |-> AllAbsent(categories)]
    ELSE The({ TruncateResults(
                   PadResults(CollectParts(parts, categories, <<>>),
                              dialogues, categories),
                   dialogues)
               : parts \in {Split(outcome.text, delimiter)} })

----------------------------------------------------------------------------
(* aggregation *)

\* result.get(category) on a dict
DictGet(result, key) == IF key \in DOMAIN result.v THEN result.v[key] ELSE None

\* value == "1"
IsOne(value) == \E x \in {value} : x.k = "str" /\ x.v = <<"1">>

RECURSIVE CountRecord(_, _, _)
\* for category in categories: if result.get(category) == "1": counts[..] += 1
\* [ok |-> FALSE] when result has no get (AttributeError)
CountRecord(counts, result, categories) ==
    IF categories = <<>> THEN [ok |-> TRUE, val |-> counts]
    ELSE IF result.k # "dict" THEN Fail
    ELSE The({ CountRecord(IF IsOne(DictGet(result, Head(categories)))
                           THEN [cs EXCEPT ![Head(categories)] = @ + 1]
                           ELSE cs,
                           result, Tail(categories))
               : cs \in {counts} })

RECURSIVE CountResults(_, _, _)
\* for result in results: ...
CountResults(counts, results, categories) ==
    IF results = <<>> THEN [ok |-> TRUE, val |-> counts]
    ELSE The({ IF ~row.ok THEN Fail
               ELSE CountResults(row.val, Tail(results), categories)
               : row \in {CountRecord(counts, Head(results), categories)} })

\* [ok |-> TRUE, val |-> counts], or [ok |-> FALSE] when it raises
calculate_category_counts(results, categories) ==
    The({ CountResults([c \in Range(categories) |-> 0], rs, categories)
          : rs \in {results} })

\* the check mark
CheckMark == "CHECKMARK"

format_category_result(result, categories) ==
    [c \in Range(categories) |->
        IF IsOne(DictGet(result, c)) THEN PyStr(<<CheckMark>>) ELSE PyStr(<<>>)]

----------------------------------------------------------------------------
(* State *)

VARIABLES
    session_state,   \* st.session_state: a mapping from the keys set so far
    pc,              \* where the run handler stands: idle, search, configure, model
    credentials,     \* the three credential fields as the run read them
    categories,      \* the run handler's local: get_categories()
    search_data,     \* the run handler's local: parse_search_results(...)
    search_status,   \* how the run's search call ended
    search_calls,    \* search requests the run has made
    model_calls,     \* model requests the run has made
    run_status,      \* how the last script run with a pressed button ended
    tab2,            \* what the result view showed in the last script run
    produced,        \* history: what the last completed run computed
    input_text,      \* a text under construction: typed, or sent by the model
    input_pieces,    \* the number of pieces input_text was built from
    call,            \* the direct call of the classifier made on input_text
    parse_out,       \* what parse_response returned
    batch_out        \* what process_batch_dialogue returned

vars ==
    <<session_state, pc, credentials, categories, search_data, search_status,
      search_calls, model_calls, run_status, tab2, produced, input_text,
      input_pieces, call, parse_out, batch_out>>

appVars ==
    <<session_state, pc, credentials, categories, search_data, search_status,
      search_calls, model_calls, run_status, tab2, produced>>

callVars == <<call, parse_out, batch_out>>

----------------------------------------------------------------------------
(* Bounds and input sets *)

\* pieces a model response is built from
MaxPieces == 3

\* dialogues handed to a direct call of process_batch_dialogue
MaxTexts == 2

CatA == <<"a">>

CatB == <<"b">>

ObjA1 == <<"{", "\"", "a", "\"", ":", "\"", "1", "\"", "}">>

ObjB0 == <<"{", "\"", "b", "\"", ":", "\"", "0", "\"", "}">>

ListAB == <<"[", "\"", "a", "\"", ",", "\"", "b", "\"", "]">>

StrAB == <<"\"", "a", " ", "b", "\"">>

FenceOpen == Fence \o <<"j", "s", "o", "n", "\n">>

FenceClose == <<"\n">> \o Fence

\* what the model may send, piece by piece: objects, a list and a string
\* that name the categories, the delimiter, a lone dash, blanks and the
\* code fence lines of the prompt's example
ResponsePieces ==
    {ObjA1, ObjB0, ListAB, StrAB, DefaultDelimiter, <<"-">>, <<" ">>,
     FenceOpen, FenceClose}

ClassifierCategories == {<<CatA>>, <<CatA, CatB>>}

Dialogues(n) == [i \in 1..n |-> <<"d">>]

NoCall == [op |-> "none", categories |-> <<>>, dialogues |-> <<>>, outcome |-> Raised]

----------------------------------------------------------------------------
----------------------------------------------------------------------------
(* The sidebar: the category list and its update handler *)

\* the seven entries custom_categories starts with; a syllable stands for
\* each of their characters
DefaultCategories ==
    << <<"yu", "fa", "wen", "ti">>,
       <<"fa1", "yin", "wen", "ti">>,
       <<"ting", "li", "wen", "ti">>,
       <<"ci", "hui", "wen", "ti">>,
       <<"wen2", "hua", "li3", "jie", "wen", "ti">>,
       <<"kou", "shuo", "lian", "xi">>,
       <<"yu", "yan", "xue", "xi", "ji", "qiao">> >>

NonEmpty(s) == s # <<>>

\* [cat.strip() for cat in categories_text.split("\n") if cat.strip()]
ParseCategories(categories_text) ==
    LET lines == Split(categories_text, <<"\n">>)
    IN  SelectSeq([n \in 1..Len(lines) |-> Strip(lines[n])], NonEmpty)

TitleKey == <<"t", "i", "t", "l", "e">>

SnippetKey == <<"s", "n", "i", "p", "p", "e", "t">>

LinkKey == <<"l", "i", "n", "k">>

----------------------------------------------------------------------------
(* The result view *)

LabelTitle == <<"biao", "ti">>

LabelSnippet == <<"miao", "shu">>

LabelLink == <<"lian4", "jie1">>

DigitChars == <<"0", "1", "2", "3", "4", "5", "6", "7", "8", "9">>

RECURSIVE DecimalText(_)
\* str(n) for n >= 0
DecimalText(n) ==
    IF n < 10 THEN <<DigitChars[n + 1]>>
    ELSE DecimalText(n \div 10) \o <<DigitChars[(n % 10) + 1]>>

\* one row of display_data; i counts from 0 as enumerate does
DisplayRow(i, result, cats) ==
    LET formatted == format_category_result(result, cats)
        shown ==
            IF TitleKey \in DOMAIN result.v
            THEN (LabelTitle :> result.v[TitleKey]) @@
                 (LabelSnippet :> result.v[SnippetKey]) @@
                 (LabelLink :> PyStr(<<"[", "wang", "zhan", "lian", "jie", "]", "(">>
                                     \o result.v[LinkKey].v \o <<")">>))
            ELSE (LabelTitle :> PyStr(<<"jie", "guo", " ">> \o DecimalText(i + 1))) @@
                 (LabelSnippet :> PyStr(<<"wu", "shu", "ju">>)) @@
                 (LabelLink :> PyStr(<<"wu", "lian", "jie">>))
    IN  shown @@ formatted

NotShown == [shown |-> FALSE, rows |-> <<>>]

\* the view formatting the stored results with the active category list
RenderTab2_ActiveCategories(session) ==
    IF "batch_results" \in DOMAIN session /\ "current_categories" \in DOMAIN session
    THEN [shown |-> TRUE,
          rows  |-> [n \in 1..Len(session.batch_results) |->
                        DisplayRow(n - 1, session.batch_results[n],
                                   session.custom_categories)]]
    ELSE NotShown

\* tab2: the stored results formatted with the stored snapshot
RenderTab2(session) ==
    IF "batch_results" \in DOMAIN session /\ "current_categories" \in DOMAIN session
    THEN [shown |-> TRUE,
          rows  |-> [n \in 1..Len(session.batch_results) |->
                        DisplayRow(n - 1, session.batch_results[n],
                                   session.current_categories)]]
    ELSE NotShown

----------------------------------------------------------------------------
(* The search *)

\* items of a search response: one with every field, one with a title only
ItemFull ==
    (TitleKey :> PyStr(<<"T">>)) @@ (SnippetKey :> PyStr(<<"s">>)) @@
    (LinkKey :> PyStr(<<"u">>))

ItemTitleOnly == (TitleKey :> PyStr(<<"1">>))

SearchItems == {ItemFull, ItemTitleOnly}

\* items in one search response
MaxItems == 2

ItemLists == UNION {[1..n -> SearchItems] : n \in 0..MaxItems}

\* result.get(key, "")
GetOrEmpty(result, key) == IF key \in DOMAIN result THEN result[key] ELSE PyStr(<<>>)

parse_search_results(results) ==
    [n \in 1..Len(results) |->
        (TitleKey :> GetOrEmpty(results[n], TitleKey)) @@
        (SnippetKey :> GetOrEmpty(results[n], SnippetKey)) @@
        (LinkKey :> GetOrEmpty(results[n], LinkKey))]

\* what requests.get and response.json() can do
SearchOutcomes ==
    {[kind |-> "raised", items |-> <<>>],
     [kind |-> "non200", items |-> <<>>],
     [kind |-> "no_items", items |-> <<>>]}
    \cup {[kind |-> "items", items |-> its] : its \in ItemLists}

\* fetch_search_results once the request has returned
fetch_search_results(outcome) ==
    IF outcome.kind = "items" THEN outcome.items ELSE <<>>

----------------------------------------------------------------------------
(* The main tab: the run handler *)

Present == <<"k">>

CredentialSets ==
    [google_api_key : {<<>>, Present}, google_cx : {<<>>, Present},
     gemini_api_key : {<<>>, Present}]

\* the credential check with "and" in place of "or"
CredentialsMissing_All(creds) ==
    creds.google_api_key = <<>> /\ creds.google_cx = <<>> /\ creds.gemini_api_key = <<>>

\* not google_api_key or not google_cx or not gemini_api_key
CredentialsMissing(creds) ==
    creds.google_api_key = <<>> \/ creds.google_cx = <<>> \/ creds.gemini_api_key = <<>>

\* result.update(search_data[i]) for every i < len(search_data);
\* [ok |-> FALSE] when a result has no update (AttributeError)
MergeResults(batch_results, data) ==
    IF \E n \in 1..Len(batch_results) : n <= Len(data) /\ batch_results[n].k # "dict"
    THEN Fail
    ELSE [ok  |-> TRUE,
          val |-> [n \in 1..Len(batch_results) |->
                      IF n <= Len(data)
                      THEN PyDict(DictUpdate(batch_results[n].v, data[n]))
                      ELSE batch_results[n]]]

\* the four assignments that end a run
StoreRun(session, batch_results, category_counts, cats) ==
    [key \in (DOMAIN session) \cup
             {"batch_results", "category_counts", "current_categories"} |->
        IF key = "batch_results" THEN batch_results
        ELSE IF key = "category_counts" THEN category_counts
        ELSE IF key = "current_categories" THEN cats
        ELSE session[key]]

NothingProduced ==
    [done |-> FALSE, batch_results |-> <<>>, category_counts |-> <<>>,
     current_categories |-> <<>>]

AppInit ==
    /\ session_state = [custom_categories |-> DefaultCategories]
    /\ pc = "idle"
    /\ credentials = [google_api_key |-> <<>>, google_cx |-> <<>>, gemini_api_key |-> <<>>]
    /\ categories = <<>>
    /\ search_data = <<>>
    /\ search_status = "none"
    /\ search_calls = 0
    /\ model_calls = 0
    /\ run_status = "none"
    /\ tab2 = NotShown
    /\ produced = NothingProduced

\* the button of the sidebar, pressed with categories_text in the text area
UpdateHandler(categories_text) ==
    /\ pc = "idle"
    /\ LET cats == ParseCategories(categories_text)
       IN  IF cats # <<>>
           THEN /\ session_state' = [session_state EXCEPT !.custom_categories = cats]
                /\ run_status' = "updated"
           ELSE /\ session_state' = session_state
                /\ run_status' = "update_rejected"
    /\ tab2' = RenderTab2(session_state')
    /\ UNCHANGED <<pc, credentials, categories, search_data, search_status,
                   search_calls, model_calls, produced>>

\* the run button: the credential check, then the search request goes out
RunClick(creds) ==
    /\ pc = "idle"
    /\ credentials' = creds
    /\ categories' = session_state.custom_categories
    /\ search_data' = <<>>
    /\ search_status' = "none"
    /\ model_calls' = 0
    /\ IF CredentialsMissing(creds)
       THEN /\ run_status' = "config_error"
            /\ search_calls' = 0
            /\ pc' = "idle"
            /\ session_state' = session_state
            /\ tab2' = RenderTab2(session_state)
       ELSE /\ run_status' = "running"
            /\ search_calls' = 1
            /\ pc' = "search"
            /\ session_state' =
                   [key \in (DOMAIN session_state) \cup {"gemini_api_key"} |->
                       IF key = "gemini_api_key" THEN creds.gemini_api_key
                       ELSE session_state[key]]
            /\ tab2' = tab2
    /\ UNCHANGED produced

\* the search request returns, or raises
SearchReturns(outcome) ==
    /\ pc = "search"
    /\ search_status' = outcome.kind
    /\ IF outcome.kind = "raised"
       THEN /\ run_status' = "exception"
            /\ pc' = "idle"
            /\ search_data' = <<>>
            /\ tab2' = NotShown
       ELSE IF fetch_search_results(outcome) # <<>>
       THEN /\ run_status' = "running"
            /\ pc' = "configure"
            /\ search_data' = parse_search_results(fetch_search_results(outcome))
            /\ tab2' = tab2
       ELSE /\ run_status' = "search_error"
            /\ pc' = "idle"
            /\ search_data' = <<>>
            /\ tab2' = RenderTab2(session_state)
    /\ UNCHANGED <<session_state, credentials, categories, search_calls,
                   model_calls, produced>>

\* genai.configure: st.stop() when it raises, else the model request goes out
ConfigureReturns(ok) ==
    /\ pc = "configure"
    /\ IF ok
       THEN /\ pc' = "model"
            /\ model_calls' = model_calls + 1
            /\ run_status' = "running"
            /\ tab2' = tab2
       ELSE /\ pc' = "idle"
            /\ model_calls' = model_calls
            /\ run_status' = "stopped"
            /\ tab2' = NotShown
    /\ UNCHANGED <<session_state, credentials, categories, search_data,
                   search_status, search_calls, produced>>

\* the model request ends: classify, count, merge, store, show
ModelReturns(outcome) ==
    /\ pc = "model"
    /\ pc' = "idle"
    /\ \E batch_results \in
            {process_batch_dialogue(
                 [n \in 1..Len(search_data) |-> search_data[n][SnippetKey].v],
                 categories, DefaultDelimiter, outcome)} :
       \E counts \in {calculate_category_counts(batch_results, categories)},
          merged \in {MergeResults(batch_results, search_data)} :
           IF counts.ok /\ merged.ok
           THEN /\ session_state' =
                       StoreRun(session_state, merged.val, counts.val, categories)
                /\ produced' = [done |-> TRUE, batch_results |-> merged.val,
                                category_counts |-> counts.val,
                                current_categories |-> categories]
                /\ run_status' = "completed"
                /\ tab2' = RenderTab2(session_state')
           ELSE /\ session_state' = session_state
                /\ produced' = produced
                /\ run_status' = "exception"
                /\ tab2' = NotShown
    /\ UNCHANGED <<credentials, categories, search_data, search_status,
                   search_calls, model_calls>>

\* texts of the category text area: two entries, a name that is also a
\* search item's field, one entry, blanks only
EditorTexts ==
    {<<"a", "\n", "b">>,
     <<" ">> \o TitleKey \o <<" ", "\n">>,
     <<"b">>,
     <<" ", "\n", "\n">>}

ObjB1 == <<"{", "\"", "b", "\"", ":", "\"", "1", "\"", "}">>

ObjTitle1 == <<"{", "\"">> \o TitleKey \o <<"\"", ":", "\"", "1", "\"", "}">>

ObjDefault1 ==
    <<"{", "\"">> \o DefaultCategories[1] \o <<"\"", ":", " ", "\"", "1", "\"", "}">>

\* what the model backend does with one request
ModelOutcomes ==
    {Raised,
     Returned(<<>>),
     Returned(ObjA1 \o <<"\n">> \o DefaultDelimiter \o <<"\n">> \o ObjB1),
     Returned(ListAB),
     Returned(ObjTitle1),
     Returned(ObjDefault1 \o DefaultDelimiter \o ObjB0 \o DefaultDelimiter \o ObjA1)}

HarnessIdle ==
    /\ input_text = <<>>
    /\ input_pieces = 0
    /\ call = NoCall
    /\ parse_out = None
    /\ batch_out = <<>>

Init == AppInit /\ HarnessIdle

Next ==
    \/ \E t \in EditorTexts : UpdateHandler(t) /\ UNCHANGED <<input_text, input_pieces, callVars>>
    \/ \E creds \in CredentialSets : RunClick(creds) /\ UNCHANGED <<input_text, input_pieces, callVars>>
    \/ \E o \in SearchOutcomes : SearchReturns(o) /\ UNCHANGED <<input_text, input_pieces, callVars>>
    \/ \E ok \in BOOLEAN : ConfigureReturns(ok) /\ UNCHANGED <<input_text, input_pieces, callVars>>
    \/ \E o \in ModelOutcomes : ModelReturns(o) /\ UNCHANGED <<input_text, input_pieces, callVars>>

Spec == Init /\ [][Next]_vars

----------------------------------------------------------------------------
(* The category editor on its own: any text typed piece by piece *)

\* pieces typed into the category text area
MaxTyped == 3

EditorPieces == {<<"a">>, <<"b">>, <<" ">>, <<"\n">>, TitleKey}

TypePiece(p) ==
    /\ pc = "idle"
    /\ input_pieces < MaxTyped
    /\ input_text' = input_text \o p
    /\ input_pieces' = input_pieces + 1
    /\ UNCHANGED <<appVars, callVars>>

\* the update button, pressed with the typed text; the next text starts anew
UpdateTyped ==
    /\ UpdateHandler(input_text)
    /\ input_text' = <<>>
    /\ input_pieces' = 0
    /\ UNCHANGED callVars

EditorNext ==
    \/ \E p \in EditorPieces : TypePiece(p)
    \/ UpdateTyped

SpecEditor == Init /\ [][EditorNext]_vars

----------------------------------------------------------------------------
(* The classifier on its own: any response sent piece by piece, then one *)
(* direct call of parse_response or of process_batch_dialogue            *)

BackendEmits(p) ==
    /\ call.op = "none"
    /\ input_pieces < MaxPieces
    /\ input_text' = input_text \o p
    /\ input_pieces' = input_pieces + 1
    /\ UNCHANGED <<appVars, callVars>>

CallParseResponse(cats) ==
    /\ call.op = "none"
    /\ call' = [op |-> "parse", categories |-> cats, dialogues |-> <<>>,
                outcome |-> Returned(input_text)]
    /\ parse_out' = parse_response(input_text, cats)
    /\ UNCHANGED <<appVars, input_text, input_pieces, batch_out>>

CallProcessBatch(dialogues, cats, raised) ==
    /\ call.op = "none"
    /\ call' = [op |-> "batch", categories |-> cats, dialogues |-> dialogues,
                outcome |-> IF raised THEN Raised ELSE Returned(input_text)]
    /\ batch_out' = process_batch_dialogue(dialogues, cats, DefaultDelimiter, call'.outcome)
    /\ UNCHANGED <<appVars, input_text, input_pieces, parse_out>>

ClassifierNext ==
    \/ \E p \in ResponsePieces : BackendEmits(p)
    \/ \E cats \in ClassifierCategories : CallParseResponse(cats)
    \/ \E n \in 0..MaxTexts, cats \in ClassifierCategories, raised \in BOOLEAN :
           CallProcessBatch(Dialogues(n), cats, raised)

SpecClassifier == Init /\ [][ClassifierNext]_vars

----------------------------------------------------------------------------
(* Claims *)

\* the response's segments that are not empty once trimmed, in order
KeptSegments(text) ==
    LET parts == Split(text, DefaultDelimiter)
    IN  SelectSeq([n \in 1..Len(parts) |-> Strip(parts[n])], NonEmpty)

IsFlag(value) == value.k = "str" /\ value.v \in {<<"1">>, <<>>}

\* C1: for every number N of texts, every category list and every backend
\* outcome (a raise, or any response text), process_batch_dialogue returns
\* exactly N records.
C1_BatchLength ==
    call.op = "batch" => Len(batch_out) = Len(call.dialogues)

\* a response with more fragments than texts has been classified
C1_Witness ==
    /\ call.op = "batch"
    /\ ~call.outcome.raised
    /\ Len(call.dialogues) = 1
    /\ Len(KeptSegments(call.outcome.text)) = 2
    /\ Len(batch_out) = 1

\* C2: when the backend call succeeds, with P the parsed non-empty trimmed
\* segments in order and M = len(P): the result is P followed by N - M
\* all-absent records when M < N, P when M = N, the first N of P when M > N.
C2_Reconciliation ==
    (call.op = "batch" /\ ~call.outcome.raised) =>
        LET kept == KeptSegments(call.outcome.text)
        IN  batch_out =
                [n \in 1..Len(call.dialogues) |->
                    IF n <= Len(kept)
                    THEN parse_response(kept[n], call.categories)
                    ELSE AllAbsent(call.categories)]

\* a response with an empty segment and fewer fragments than texts has
\* been classified, and its one fragment carries a flag
C2_Witness ==
    /\ call.op = "batch"
    /\ ~call.outcome.raised
    /\ Len(call.dialogues) = 2
    /\ Len(Split(call.outcome.text, DefaultDelimiter)) = 3
    /\ Len(KeptSegments(call.outcome.text)) = 1
    /\ batch_out[1] # AllAbsent(call.categories)
    /\ batch_out[2] = AllAbsent(call.categories)

\* C3: every record process_batch_dialogue returns is a mapping with an
\* entry for every category of the call, each of them "1" or "".
C3_RecordsAreFlagMappings ==
    call.op = "batch" =>
        \A n \in 1..Len(batch_out) :
            /\ batch_out[n].k = "dict"
            /\ \A c \in Range(call.categories) :
                   /\ c \in DOMAIN batch_out[n].v
                   /\ IsFlag(batch_out[n].v[c])

\* the fragment as section 4.1 of the specification cleans it: trimmed, the
\* first line dropped when it starts with a fence, the last line dropped
\* when it is a fence, whether or not the first was
SpecUnfenced(text) ==
    LET lines  == SplitLines(Strip(text))
        lines1 == IF lines # <<>> /\ StartsWith(lines[1], Fence) THEN Tail(lines) ELSE lines
        lines2 == IF lines1 # <<>> /\ Strip(lines1[Len(lines1)]) = Fence
                  THEN SubSeq(lines1, 1, Len(lines1) - 1)
                  ELSE lines1
    IN  Strip(Join(lines2, <<"\n">>))

DecodesToObject(text) ==
    LET decoded == JsonLoads(SpecUnfenced(text))
    IN  decoded.ok /\ decoded.val.k = "dict"

\* C4: for every fragment that does not decode to a JSON object (malformed
\* text, or a list, a string, a number, true, false, null) parse_response
\* returns the mapping of every category to "", and nothing else.
C4_NonObjectAllAbsent ==
    (call.op = "parse" /\ ~DecodesToObject(input_text)) =>
        parse_out = AllAbsent(call.categories)

\* C10: parse_response drops a closing fence line whether or not the
\* fragment began with a fence, so a JSON object followed by a closing
\* fence line decodes to that object's flags.
C10_ClosingFenceDropped ==
    (call.op = "parse" /\ DecodesToObject(input_text)) =>
        parse_out = DecodeAndFill(SpecUnfenced(input_text), call.categories)

RunEndedAfterModelCall ==
    pc = "idle" /\ model_calls = 1 /\ run_status \in {"completed", "exception"}

\* C5: every run with the three credentials and N >= 1 search items runs to
\* completion whatever the model backend does, and stores N classified items
\* with their search item's title, snippet and link, the counts and the
\* category snapshot; no exception escapes it.
C5_RunCompletes ==
    RunEndedAfterModelCall =>
        /\ run_status = "completed"
        /\ {"batch_results", "category_counts", "current_categories"}
               \subseteq DOMAIN session_state
        /\ session_state.current_categories = categories
        /\ Len(session_state.batch_results) = Len(search_data)
        /\ \A n \in 1..Len(search_data) :
               \A key \in {TitleKey, SnippetKey, LinkKey} :
                   session_state.batch_results[n].v[key] = search_data[n][key]

\* C6: the stored results, counts and snapshot are those of the last
\* completed run whatever category updates follow, and the result view
\* formats the stored results with that run's snapshot.
C6_StoredRunKept ==
    /\ "batch_results" \in DOMAIN session_state =>
           /\ produced.done
           /\ session_state.batch_results = produced.batch_results
           /\ session_state.category_counts = produced.category_counts
           /\ session_state.current_categories = produced.current_categories
    /\ tab2.shown =>
           /\ produced.done
           /\ tab2.rows =
                  [n \in 1..Len(produced.batch_results) |->
                      DisplayRow(n - 1, produced.batch_results[n],
                                 produced.current_categories)]

\* an accepted update has replaced the category list after a run whose
\* results carry a flag, and the view shows that run
C6_Witness ==
    /\ run_status = "updated"
    /\ produced.done
    /\ tab2.shown
    /\ session_state.custom_categories # session_state.current_categories
    /\ \E c \in Range(produced.current_categories) : produced.category_counts[c] > 0

\* C7: the active category list is never empty, its entries are not empty
\* and carry no blank at either end, and no entry occurs twice.
C7_CategoriesWellFormed ==
    LET cs == session_state.custom_categories
    IN  /\ cs # <<>>
        /\ \A n \in 1..Len(cs) :
               /\ cs[n] # <<>>
               /\ cs[n][1] \notin Whitespace
               /\ cs[n][Len(cs[n])] \notin Whitespace
        /\ \A m, n \in 1..Len(cs) : m # n => cs[m] # cs[n]

\* C8: whenever results are stored, the stored count of every category of
\* the stored snapshot is the number of stored items whose value for it
\* is "1".
C8_CountsMatchStoredItems ==
    "batch_results" \in DOMAIN session_state =>
        \A c \in Range(session_state.current_categories) :
            session_state.category_counts[c] =
                Cardinality({n \in 1..Len(session_state.batch_results) :
                                IsOne(DictGet(session_state.batch_results[n], c))})

\* C9: a run makes at most one search call and at most one model call; the
\* model call goes out only after the search has returned items; a run with
\* a credential missing makes no call; a run whose search failed or
\* returned nothing makes no model call.
C9_CallsSequenced ==
    /\ search_calls <= 1
    /\ model_calls <= 1
    /\ pc \in {"search", "configure"} => model_calls = 0
    /\ model_calls = 1 =>
           search_calls = 1 /\ search_status = "items" /\ search_data # <<>>
    /\ (\/ credentials.google_api_key = <<>>
        \/ credentials.google_cx = <<>>
        \/ credentials.gemini_api_key = <<>>) =>
           search_calls = 0 /\ model_calls = 0
    /\ (search_status \in {"raised", "non200", "no_items"} \/
        (search_status = "items" /\ search_data = <<>>)) =>
           model_calls = 0

\* a run has made its search call, then its model call, and has completed
C9_Witness ==
    /\ pc = "idle"
    /\ run_status = "completed"
    /\ search_calls = 1
    /\ model_calls = 1
====
